---- MODULE Spec2Model ----
(***************************************************************************)
(* Model of src/objects-tasks.js: the css selector builder (class          *)
(* Selector, CombinedSelector, the cssSelectorBuilder facade), sellTickets *)
(* and compareObjects.                                                     *)
(*                                                                         *)
(* JavaScript objects live in a heap (a sequence of records addressed by   *)
(* their index) because Selector methods act on `this` by reference.       *)
(* A nullable string field is Null (<<>>) or Some(s) (<<s>>).              *)
(***************************************************************************)
EXTENDS Integers, Sequences, FiniteSets, TLC

VARIABLES heap, lineage, last,          \* css selector builder
          queue, i, cashbox, sold,      \* sellTickets
          obj1, obj2, equal             \* compareObjects

vars == <<heap, lineage, last, queue, i, cashbox, sold, obj1, obj2, equal>>
selectorVars == <<heap, lineage, last>>
ticketVars == <<queue, i, cashbox, sold>>
compareVars == <<obj1, obj2, equal>>

(***************************************************************************)
(* Bounds of the model.                                                    *)
(***************************************************************************)
MaxObjs == 3        \* objects (Selector or CombinedSelector) ever allocated
MaxQueue == 7       \* customers in the ticket queue
MaxKeys == 2        \* keys of a compared object

\* Values handed to the builder methods.  An id may be the empty string, and
\* two class names tell insertion order apart.
Names(part) ==
  CASE part = "id" -> {"", "a"}
    [] part = "class" -> {"a", "b"}
    [] OTHER -> {"a"}

\* Combinators handed to combine: the descendant space and a sibling sign.
Combinators == {" ", "+"}

Parts == {"element", "id", "class", "attr", "pseudoClass", "pseudoElement"}

Null == <<>>
Some(v) == <<v>>

(***************************************************************************)
(* class Selector                                                          *)
(***************************************************************************)
NewSelector ==
  [kind |-> "Selector",
   elementName |-> Null,
   idName |-> Null,
   classes |-> <<>>,
   attributes |-> <<>>,
   pseudoClasses |-> <<>>,
   pseudoElementName |-> Null,
   order |-> <<>>]

orderMap ==
  [p \in Parts |->
     CASE p = "element" -> 1
       [] p = "id" -> 2
       [] p = "class" -> 3
       [] p = "attr" -> 4
       [] p = "pseudoClass" -> 5
       [] p = "pseudoElement" -> 6]

OrderError ==
  "Selector parts should be arranged in the following order: element, id, class, attribute, pseudo-class, pseudo-element"

DuplicateError ==
  "Element, id and pseudo-element should not occur more than one time inside the selector"

Ok == "ok"

\* checkOrder with `>=` for `>`: a part of equal rank is refused too.
checkOrderStrict(self, part) ==
  LET n == Len(self.order)
      threw == n > 0 /\ orderMap[self.order[n]] >= orderMap[part]
  IN [threw |-> threw,
      self |-> IF threw THEN self ELSE [self EXCEPT !.order = Append(@, part)]]

\* checkOrder pushing the part before it tests the order.
checkOrderPushFirst(self, part) ==
  LET n == Len(self.order)
      threw == n > 0 /\ orderMap[self.order[n]] > orderMap[part]
  IN [threw |-> threw, self |-> [self EXCEPT !.order = Append(@, part)]]

\* checkOrder(part): throws when the last recorded part ranks higher, and
\* otherwise pushes the part onto this.order.  `self` is `this` afterwards.
checkOrder(self, part) ==
  LET n == Len(self.order)
      threw == n > 0 /\ orderMap[self.order[n]] > orderMap[part]
  IN [threw |-> threw,
      self |-> IF threw THEN self ELSE [self EXCEPT !.order = Append(@, part)]]

\* ensureSingle testing `if (value)` for `if (value !== null)`.
ensureSingleTruthy(value) == value # Null /\ value[1] # ""

\* ensureSingle(value): TRUE when it throws.
ensureSingle(value) == value # Null

\* clone(): a new Selector with every field copied.
clone(self) ==
  [kind |-> "Selector",
   elementName |-> self.elementName,
   idName |-> self.idName,
   classes |-> self.classes,
   attributes |-> self.attributes,
   pseudoClasses |-> self.pseudoClasses,
   pseudoElementName |-> self.pseudoElementName,
   order |-> self.order]

\* The outcome of a method call: the error thrown or Ok, `this` after the
\* call, and the returned object (<<>> when the call threw).
Threw(error, self) == [outcome |-> error, self |-> self, result |-> <<>>]
Returned(self, copy) == [outcome |-> Ok, self |-> self, result |-> <<copy>>]

element(self, value) ==
  IF ensureSingle(self.elementName) THEN Threw(DuplicateError, self)
  ELSE LET co == checkOrder(self, "element") IN
       IF co.threw THEN Threw(OrderError, co.self)
       ELSE Returned(co.self, [clone(co.self) EXCEPT !.elementName = Some(value)])

id(self, value) ==
  IF ensureSingle(self.idName) THEN Threw(DuplicateError, self)
  ELSE LET co == checkOrder(self, "id") IN
       IF co.threw THEN Threw(OrderError, co.self)
       ELSE Returned(co.self, [clone(co.self) EXCEPT !.idName = Some(value)])

class(self, value) ==
  LET co == checkOrder(self, "class") IN
  IF co.threw THEN Threw(OrderError, co.self)
  ELSE Returned(co.self, [clone(co.self) EXCEPT !.classes = Append(@, value)])

attr(self, value) ==
  LET co == checkOrder(self, "attr") IN
  IF co.threw THEN Threw(OrderError, co.self)
  ELSE Returned(co.self, [clone(co.self) EXCEPT !.attributes = Append(@, value)])

pseudoClass(self, value) ==
  LET co == checkOrder(self, "pseudoClass") IN
  IF co.threw THEN Threw(OrderError, co.self)
  ELSE Returned(co.self, [clone(co.self) EXCEPT !.pseudoClasses = Append(@, value)])

pseudoElement(self, value) ==
  IF ensureSingle(self.pseudoElementName) THEN Threw(DuplicateError, self)
  ELSE LET co == checkOrder(self, "pseudoElement") IN
       IF co.threw THEN Threw(OrderError, co.self)
       ELSE Returned(co.self, [clone(co.self) EXCEPT !.pseudoElementName = Some(value)])

\* Dispatch on the method's name.
Method(self, part, value) ==
  CASE part = "element" -> element(self, value)
    [] part = "id" -> id(self, value)
    [] part = "class" -> class(self, value)
    [] part = "attr" -> attr(self, value)
    [] part = "pseudoClass" -> pseudoClass(self, value)
    [] part = "pseudoElement" -> pseudoElement(self, value)

\* JavaScript truthiness of a nullable string: null and '' are falsy.
Truthy(opt) == opt # Null /\ opt[1] # ""

mapClass(c) == "." \o c
mapAttr(a) == "[" \o a \o "]"
mapPseudoClass(pc) == ":" \o pc

RECURSIVE JoinMap(_, _)
\* array.map(f).join(''), f named by `kind`
JoinMap(kind, arr) ==
  IF arr = <<>> THEN ""
  ELSE (CASE kind = "class" -> mapClass(Head(arr))
          [] kind = "attr" -> mapAttr(Head(arr))
          [] kind = "pseudoClass" -> mapPseudoClass(Head(arr)))
       \o JoinMap(kind, Tail(arr))

stringify(self) ==
  (IF Truthy(self.elementName) THEN self.elementName[1] ELSE "")
  \o (IF Truthy(self.idName) THEN "#" \o self.idName[1] ELSE "")
  \o JoinMap("class", self.classes)
  \o JoinMap("attr", self.attributes)
  \o JoinMap("pseudoClass", self.pseudoClasses)
  \o (IF Truthy(self.pseudoElementName) THEN "::" \o self.pseudoElementName[1] ELSE "")

(***************************************************************************)
(* CombinedSelector                                                        *)
(***************************************************************************)
\* new CombinedSelector(selector1, combinator, selector2): holds references.
CombinedSelector(selector1, combinator, selector2) ==
  [kind |-> "Combined",
   selector1 |-> selector1,
   selector2 |-> selector2,
   combinator |-> combinator]

\* combinedStringify with the operands the wrong way round.
combinedStringifySwapped(left, combinator, right) ==
  right \o " " \o combinator \o " " \o left

\* combinedStringify without the spaces of the template.
combinedStringifyTight(left, combinator, right) ==
  left \o combinator \o right

\* The template of combinedStringify over the operands' strings.
combinedStringify(left, combinator, right) ==
  left \o " " \o combinator \o " " \o right

RECURSIVE Stringify(_, _)
\* obj.stringify() for the object at address k of heap h
Stringify(h, k) ==
  IF h[k].kind = "Selector" THEN stringify(h[k])
  ELSE combinedStringify(Stringify(h, h[k].selector1),
                         h[k].combinator,
                         Stringify(h, h[k].selector2))

(***************************************************************************)
(* State of the builder: the heap, and two history variables.              *)
(* lineage[k] records how object k was made: the object the making call    *)
(* was invoked on (0 for the facade's fresh Selector) and the whole chain  *)
(* of <<part, value>> calls from the facade down to k.                      *)
(* last records the most recent call: the receiver (for combine the two   *)
(* operands recv and other), the method's name (for combine the           *)
(* combinator), the error thrown or Ok, the address of the returned        *)
(* object, the operands as they were before the call, for combine their    *)
(* strings before the call, and how many objects earlier calls on the      *)
(* receiver had returned.                                                  *)
(***************************************************************************)
NoCall ==
  [op |-> "none", recv |-> 0, other |-> 0, part |-> "",
   outcome |-> Ok, result |-> 0, before |-> <<>>, text |-> <<>>, fanout |-> 0]

\* Nothing in the module catches: a thrown Error ends the run.
Running == last.outcome = Ok

Children(lin, r) == {k \in DOMAIN lin : lin[k].parent = r}

\* A call of method `part` with `value` on the Selector at address r.
Invoke(r, part, value) ==
  LET out == Method(heap[r], part, value)
      ok == out.outcome = Ok
      k == Len(heap) + 1
  IN /\ heap[r].kind = "Selector"
     /\ ok => Len(heap) < MaxObjs
     /\ heap' = IF ok THEN Append([heap EXCEPT ![r] = out.self], out.result[1])
                ELSE [heap EXCEPT ![r] = out.self]
     /\ lineage' = IF ok
                   THEN Append(lineage,
                               [parent |-> r,
                                calls |-> Append(lineage[r].calls, <<part, value>>)])
                   ELSE lineage
     /\ last' = [op |-> "method", recv |-> r, other |-> 0, part |-> part,
                 outcome |-> out.outcome,
                 result |-> IF ok THEN k ELSE 0,
                 before |-> <<heap[r]>>, text |-> <<>>,
                 fanout |-> Cardinality(Children(lineage, r))]
     /\ UNCHANGED <<ticketVars, compareVars>>

SelectorElement == \E r \in DOMAIN heap, v \in Names("element") : Running /\ Invoke(r, "element", v)
SelectorId == \E r \in DOMAIN heap, v \in Names("id") : Running /\ Invoke(r, "id", v)
SelectorClass == \E r \in DOMAIN heap, v \in Names("class") : Running /\ Invoke(r, "class", v)
SelectorAttr == \E r \in DOMAIN heap, v \in Names("attr") : Running /\ Invoke(r, "attr", v)
SelectorPseudoClass == \E r \in DOMAIN heap, v \in Names("pseudoClass") : Running /\ Invoke(r, "pseudoClass", v)
SelectorPseudoElement == \E r \in DOMAIN heap, v \in Names("pseudoElement") : Running /\ Invoke(r, "pseudoElement", v)

\* cssSelectorBuilder.<part>(value): new Selector().<part>(value).  The fresh
\* Selector is garbage after the call; only the returned copy is kept.
Facade(part, value) ==
  LET out == Method(NewSelector, part, value)
      ok == out.outcome = Ok
      k == Len(heap) + 1
  IN /\ ok => Len(heap) < MaxObjs
     /\ heap' = IF ok THEN Append(heap, out.result[1]) ELSE heap
     /\ lineage' = IF ok
                   THEN Append(lineage, [parent |-> 0, calls |-> << <<part, value>> >>])
                   ELSE lineage
     /\ last' = [op |-> "facade", recv |-> 0, other |-> 0, part |-> part,
                 outcome |-> out.outcome,
                 result |-> IF ok THEN k ELSE 0,
                 before |-> <<NewSelector>>, text |-> <<>>,
                 fanout |-> 0]
     /\ UNCHANGED <<ticketVars, compareVars>>

BuilderElement == \E v \in Names("element") : Running /\ Facade("element", v)
BuilderId == \E v \in Names("id") : Running /\ Facade("id", v)
BuilderClass == \E v \in Names("class") : Running /\ Facade("class", v)
BuilderAttr == \E v \in Names("attr") : Running /\ Facade("attr", v)
BuilderPseudoClass == \E v \in Names("pseudoClass") : Running /\ Facade("pseudoClass", v)
BuilderPseudoElement == \E v \in Names("pseudoElement") : Running /\ Facade("pseudoElement", v)

\* cssSelectorBuilder.combine(selector1, combinator, selector2)
BuilderCombine ==
  \E a \in DOMAIN heap, b \in DOMAIN heap, c \in Combinators :
    LET k == Len(heap) + 1 IN
    /\ Running
    /\ Len(heap) < MaxObjs
    /\ heap' = Append(heap, CombinedSelector(a, c, b))
    /\ lineage' = Append(lineage, [parent |-> 0, calls |-> <<>>])
    /\ last' = [op |-> "combine", recv |-> a, other |-> b, part |-> c,
                outcome |-> Ok, result |-> k,
                before |-> <<heap[a], heap[b]>>,
                text |-> <<Stringify(heap, a), Stringify(heap, b)>>,
                fanout |-> 0]
    /\ UNCHANGED <<ticketVars, compareVars>>

(***************************************************************************)
(* sellTickets(queue)                                                      *)
(* i is the loop index (0-based, so the current bill is queue[i + 1]),     *)
(* cashbox the counts of 25- and 50-bills, sold the returned value         *)
(* (<<>> while the loop runs).                                             *)
(***************************************************************************)
Bills == {25, 50, 100}

RECURSIVE SeqsUpTo(_, _)
\* all sequences over S of length at most n
SeqsUpTo(S, n) ==
  IF n = 0 THEN {<<>>}
  ELSE LET shorter == SeqsUpTo(S, n - 1)
       IN shorter \cup {Append(q, x) : q \in {r \in shorter : Len(r) = n - 1}, x \in S}

\* sellOne changing a 100 with three 25s before it tries a 50 and a 25.
sellOneThreeFirst(key, box) ==
  CASE key = 25 -> [ok |-> TRUE, box |-> [box EXCEPT !.c25 = @ + 1]]
    [] key = 50 ->
         IF box.c25 > 0
         THEN [ok |-> TRUE, box |-> [c25 |-> box.c25 - 1, c50 |-> box.c50 + 1]]
         ELSE [ok |-> FALSE, box |-> box]
    [] key = 100 ->
         IF box.c25 > 2
         THEN [ok |-> TRUE, box |-> [box EXCEPT !.c25 = @ - 3]]
         ELSE IF box.c50 > 0 /\ box.c25 > 0
         THEN [ok |-> TRUE, box |-> [c25 |-> box.c25 - 1, c50 |-> box.c50 - 1]]
         ELSE [ok |-> FALSE, box |-> box]

\* One pass of the loop body for bill `key`: the cashbox afterwards, or
\* ok = FALSE where the body returns false.
sellOne(key, box) ==
  CASE key = 25 -> [ok |-> TRUE, box |-> [box EXCEPT !.c25 = @ + 1]]
    [] key = 50 ->
         IF box.c25 > 0
         THEN [ok |-> TRUE, box |-> [c25 |-> box.c25 - 1, c50 |-> box.c50 + 1]]
         ELSE [ok |-> FALSE, box |-> box]
    [] key = 100 ->
         IF box.c50 > 0 /\ box.c25 > 0
         THEN [ok |-> TRUE, box |-> [c25 |-> box.c25 - 1, c50 |-> box.c50 - 1]]
         ELSE IF box.c25 > 2
         THEN [ok |-> TRUE, box |-> [box EXCEPT !.c25 = @ - 3]]
         ELSE [ok |-> FALSE, box |-> box]

EmptyCashbox == [c25 |-> 0, c50 |-> 0]

\* sellTickets is entered with a queue; the other functions are not in use.
InitTickets ==
  /\ queue \in SeqsUpTo(Bills, MaxQueue)
  /\ i = 0
  /\ cashbox = EmptyCashbox
  /\ sold = <<>>
  /\ heap = <<>> /\ lineage = <<>> /\ last = NoCall
  /\ obj1 = <<>> /\ obj2 = <<>> /\ equal = <<TRUE>>

\* A loop iteration on a bill of the given kind.
Iterate(key) ==
  /\ i < Len(queue)
  /\ queue[i + 1] = key
  /\ LET out == sellOne(key, cashbox) IN
       /\ cashbox' = out.box
       /\ IF out.ok THEN i' = i + 1 /\ sold' = sold
                    ELSE i' = i /\ sold' = <<FALSE>>
  /\ UNCHANGED <<queue, selectorVars, compareVars>>

Pay25 == sold = <<>> /\ Iterate(25)
Pay50 == sold = <<>> /\ Iterate(50)
Pay100 == sold = <<>> /\ Iterate(100)

\* The loop ran off the end of the queue: return true.
SoldOut ==
  /\ sold = <<>>
  /\ i = Len(queue)
  /\ sold' = <<TRUE>>
  /\ UNCHANGED <<queue, i, cashbox, selectorVars, compareVars>>

NextTickets == Pay25 \/ Pay50 \/ Pay100 \/ SoldOut

SpecTickets == InitTickets /\ [][NextTickets]_vars

(***************************************************************************)
(* compareObjects(obj1, obj2)                                              *)
(* A flat object is the sequence of its <<key, value>> entries in          *)
(* insertion order, which is the order Object.entries lists string keys.   *)
(***************************************************************************)
Keys == {"a", "b", "c"}
Values == {1, 2}

Objects ==
  {o \in SeqsUpTo(Keys \X Values, MaxKeys) :
     \A m, n \in DOMAIN o : m # n => o[m][1] # o[n][1]}

compareObjects(o1, o2) ==
  LET entries1 == o1
      entries2 == o2
  IN IF Len(entries1) # Len(entries2) THEN FALSE
     ELSE \A n \in 1..Len(entries1) :
            ~(entries1[n][1] # entries2[n][1] \/ entries1[n][2] # entries2[n][2])

\* compareObjects is entered with two objects.
InitCompare ==
  /\ obj1 \in Objects
  /\ obj2 \in Objects
  /\ equal = <<>>
  /\ heap = <<>> /\ lineage = <<>> /\ last = NoCall
  /\ queue = <<>> /\ i = 0 /\ cashbox = EmptyCashbox /\ sold = <<TRUE>>

Compare ==
  /\ equal = <<>>
  /\ equal' = <<compareObjects(obj1, obj2)>>
  /\ UNCHANGED <<obj1, obj2, selectorVars, ticketVars>>

NextCompare == Compare

SpecCompare == InitCompare /\ [][NextCompare]_vars

(***************************************************************************)
(* The css selector builder's specification.                               *)
(***************************************************************************)
\* No object has been built yet; the other functions are not in use.
Init ==
  /\ heap = <<>> /\ lineage = <<>> /\ last = NoCall
  /\ queue = <<>> /\ i = 0 /\ cashbox = EmptyCashbox /\ sold = <<TRUE>>
  /\ obj1 = <<>> /\ obj2 = <<>> /\ equal = <<TRUE>>

Next ==
  \/ BuilderElement
  \/ BuilderId
  \/ BuilderClass
  \/ BuilderAttr
  \/ BuilderPseudoClass
  \/ BuilderPseudoElement
  \/ SelectorElement
  \/ SelectorId
  \/ SelectorClass
  \/ SelectorAttr
  \/ SelectorPseudoClass
  \/ SelectorPseudoElement
  \/ BuilderCombine

Spec == Init /\ [][Next]_vars

(***************************************************************************)
(* Reference definitions for the properties: what a chain of calls is      *)
(* expected to give, told from the history in lineage alone.               *)
(***************************************************************************)
IsSelector(k) == k \in DOMAIN heap /\ heap[k].kind = "Selector"

PartsOf(calls) == [n \in DOMAIN calls |-> calls[n][1]]
Occurrences(calls, part) == Cardinality({n \in DOMAIN calls : calls[n][1] = part})
Rank(part) ==
  CASE part = "element" -> 1 [] part = "id" -> 2 [] part = "class" -> 3
    [] part = "attr" -> 4 [] part = "pseudoClass" -> 5 [] part = "pseudoElement" -> 6
NonDecreasing(calls) ==
  \A n \in 1..(Len(calls) - 1) : Rank(calls[n][1]) <= Rank(calls[n + 1][1])
Unique == {"element", "id", "pseudoElement"}
Repeatable == {"class", "attr", "pseudoClass"}

RECURSIVE Replay(_)
\* The chain of calls made afresh, each call on the result of the one before.
Replay(calls) ==
  IF calls = <<>> THEN Returned(NewSelector, NewSelector)
  ELSE LET n == Len(calls)
           prev == Replay(SubSeq(calls, 1, n - 1))
       IN IF prev.outcome # Ok THEN prev
          ELSE Method(prev.result[1], calls[n][1], calls[n][2])

Render(part, v) ==
  CASE part = "element" -> v
    [] part = "id" -> "#" \o v
    [] part = "class" -> "." \o v
    [] part = "attr" -> "[" \o v \o "]"
    [] part = "pseudoClass" -> ":" \o v
    [] part = "pseudoElement" -> "::" \o v

RECURSIVE RenderAll(_, _)
\* the fragments of one category, in the order they were added
RenderAll(calls, part) ==
  IF calls = <<>> THEN ""
  ELSE (IF Head(calls)[1] = part THEN Render(part, Head(calls)[2]) ELSE "")
       \o RenderAll(Tail(calls), part)

Expected(calls) ==
  RenderAll(calls, "element") \o RenderAll(calls, "id") \o RenderAll(calls, "class")
  \o RenderAll(calls, "attr") \o RenderAll(calls, "pseudoClass")
  \o RenderAll(calls, "pseudoElement")

\* The last call was a method call on a Selector that ends its chain: no
\* other call had been made on the receiver.
ChainCall == last.op = "method" /\ last.fanout = 0
PrevPart == lineage[last.recv].calls[Len(lineage[last.recv].calls)][1]

(***************************************************************************)
(* C1.  A successful fragment-adding call leaves the receiver unchanged:   *)
(* every field of the receiver, its order array included, is as before     *)
(* the call, and the returned Selector carries the added order entry.      *)
(***************************************************************************)
C1_ReceiverUnchanged ==
  (last.op = "method" /\ last.outcome = Ok) =>
    /\ heap[last.recv] = last.before[1]
    /\ heap[last.result].order = Append(last.before[1].order, last.part)

(***************************************************************************)
(* C2.  Fan-out independence: the outcome of a call on a Selector (the     *)
(* error or success, and the string of the result) is the outcome the same *)
(* call has at the end of the chain that made the Selector, whatever other *)
(* calls were made on it before.                                           *)
(***************************************************************************)
C2_FanOutIndependent ==
  last.op = "method" =>
    LET fresh == Replay(lineage[last.recv].calls).result[1] IN
    IF last.outcome = Ok
    THEN LET made == lineage[last.result].calls
             want == Method(fresh, last.part, made[Len(made)][2])
         IN /\ want.outcome = Ok
            /\ stringify(heap[last.result]) = stringify(want.result[1])
    ELSE \E v \in Names(last.part) : Method(fresh, last.part, v).outcome = last.outcome

(***************************************************************************)
(* C3 as stated.  Order invariant: every Selector's chain has a            *)
(* non-decreasing rank sequence; in a chain a call ranking strictly below  *)
(* the call before it raises the ordering error; a further class, attr or  *)
(* pseudoClass call (equal rank) is accepted.                              *)
(***************************************************************************)
C3_DecreaseRaisesOrderError ==
  /\ \A k \in DOMAIN heap : IsSelector(k) => NonDecreasing(lineage[k].calls)
  /\ ChainCall =>
       /\ Rank(last.part) < Rank(PrevPart) => last.outcome = OrderError
       /\ (Rank(last.part) = Rank(PrevPart) /\ last.part \in Repeatable)
            => last.outcome = Ok

(***************************************************************************)
(* C3 as amended.  As above, but a call ranking strictly below the call    *)
(* before it raises the duplicate-part error when it is an element or id   *)
(* call on a chain that already has one, and the ordering error otherwise. *)
(***************************************************************************)
C3_OrderInvariant ==
  /\ \A k \in DOMAIN heap : IsSelector(k) => NonDecreasing(lineage[k].calls)
  /\ ChainCall =>
       /\ Rank(last.part) < Rank(PrevPart) =>
            last.outcome =
              IF last.part \in Unique
                 /\ Occurrences(lineage[last.recv].calls, last.part) > 0
              THEN DuplicateError ELSE OrderError
       /\ (Rank(last.part) = Rank(PrevPart) /\ last.part \in Repeatable)
            => last.outcome = Ok

\* A chain call of lower rank raised the ordering error.
C3_Witness ==
  /\ ChainCall
  /\ Rank(last.part) < Rank(PrevPart)
  /\ last.outcome = OrderError

(***************************************************************************)
(* C4.  Uniqueness invariant: an element, id or pseudoElement call on a    *)
(* Selector whose chain already has that call raises the duplicate-part    *)
(* error, also when the call is out of order as well; and no Selector's    *)
(* chain holds two element, two id or two pseudoElement calls.             *)
(***************************************************************************)
C4_Uniqueness ==
  /\ (/\ last.op = "method"
      /\ last.part \in Unique
      /\ Occurrences(lineage[last.recv].calls, last.part) > 0)
       => last.outcome = DuplicateError
  /\ \A k \in DOMAIN heap : \A part \in Unique :
       IsSelector(k) => Occurrences(lineage[k].calls, part) <= 1

\* element('a').id(..).class(..).element(..): duplicate and out of order,
\* and the duplicate-part error is the one raised.
C4_Witness ==
  /\ last.op = "method"
  /\ last.part = "element"
  /\ PartsOf(lineage[last.recv].calls) = <<"element", "id", "class">>
  /\ last.outcome = DuplicateError

(***************************************************************************)
(* C5.  Failed calls are atomic: a call that raises returns no Selector    *)
(* and leaves the receiver as it was, so every call on the receiver has    *)
(* the outcome it had before the failed call.                              *)
(***************************************************************************)
C5_FailedCallAtomic ==
  last.outcome # Ok =>
    /\ last.op = "method"
    /\ last.result = 0
    /\ Len(lineage) = Len(heap)
    /\ heap[last.recv] = last.before[1]
    /\ \A part \in Parts : \A v \in Names(part) :
         Method(heap[last.recv], part, v) = Method(last.before[1], part, v)

\* A call raised the ordering error.
C5_Witness ==
  /\ last.op = "method"
  /\ last.outcome = OrderError
  /\ last.result = 0

(***************************************************************************)
(* C6.  Serialization fixed order: stringify() of every Selector is the    *)
(* element name, '#' + id, '.' + each class, '[' + each attribute + ']',   *)
(* ':' + each pseudo-class, '::' + pseudo-element, of the fragments its    *)
(* chain added, each exactly once.                                         *)
(***************************************************************************)
C6_SerializationFixedOrder ==
  \A k \in DOMAIN heap :
    IsSelector(k) => stringify(heap[k]) = Expected(lineage[k].calls)

(***************************************************************************)
(* C7.  Combinator passthrough: combine(a, c, b) never raises, its string  *)
(* is a's string, a space, c, a space, b's string, and a and b are held    *)
(* by reference and are as they were before the call.                      *)
(***************************************************************************)
C7_CombinePassthrough ==
  last.op = "combine" =>
    /\ last.outcome = Ok
    /\ last.result = Len(heap)
    /\ heap[last.result].kind = "Combined"
    /\ heap[last.result].selector1 = last.recv
    /\ heap[last.result].selector2 = last.other
    /\ Stringify(heap, last.result)
         = last.text[1] \o " " \o last.part \o " " \o last.text[2]
    /\ heap[last.recv] = last.before[1]
    /\ heap[last.other] = last.before[2]
    /\ Stringify(heap, last.recv) = last.text[1]
    /\ Stringify(heap, last.other) = last.text[2]

\* A CombinedSelector was combined with another object (a nested tree).
C7_Witness ==
  /\ last.op = "combine"
  /\ heap[last.recv].kind = "Combined"
  /\ last.text[1] # last.text[2]

(***************************************************************************)
(* C8 as stated.  With the descendant combinator ' ' the output has        *)
(* exactly two space characters between the operands' texts.               *)
(***************************************************************************)
C8_TwoSpaces ==
  (last.op = "combine" /\ last.part = " ") =>
    Stringify(heap, last.result) = last.text[1] \o "  " \o last.text[2]

(***************************************************************************)
(* C8 as amended.  With the descendant combinator ' ' the output has       *)
(* exactly three space characters between the operands' texts: the two of  *)
(* the template and the combinator itself.                                 *)
(***************************************************************************)
C8_ThreeSpaces ==
  (last.op = "combine" /\ last.part = " ") =>
    Stringify(heap, last.result) = last.text[1] \o "   " \o last.text[2]

\* Two selectors were combined with the descendant combinator.
C8_Witness ==
  /\ last.op = "combine"
  /\ last.part = " "
  /\ last.result = Len(heap)

(***************************************************************************)
(* Reference definitions for sellTickets: the seller may hand out any      *)
(* bills on hand that add up to the change due (25 for a 50; a 50 and a    *)
(* 25, or three 25s, for a 100).                                           *)
(***************************************************************************)
RECURSIVE Servable(_, _, _, _)
\* Customers k.. of q can all be given change, with n25 and n50 on hand.
Servable(q, k, n25, n50) ==
  IF k > Len(q) THEN TRUE
  ELSE CASE q[k] = 25 -> Servable(q, k + 1, n25 + 1, n50)
         [] q[k] = 50 -> n25 >= 1 /\ Servable(q, k + 1, n25 - 1, n50 + 1)
         [] q[k] = 100 ->
              \/ n50 >= 1 /\ n25 >= 1 /\ Servable(q, k + 1, n25 - 1, n50 - 1)
              \/ n25 >= 3 /\ Servable(q, k + 1, n25 - 3, n50)

\* The change due to a customer paying `bill` can be made from the cashbox.
CanChange(bill, box) ==
  CASE bill = 25 -> TRUE
    [] bill = 50 -> box.c25 >= 1
    [] bill = 100 -> (box.c50 >= 1 /\ box.c25 >= 1) \/ box.c25 >= 3

(***************************************************************************)
(* C9.  sellTickets returns true exactly when every customer of the queue  *)
(* can be given exact change from the bills on hand, and false otherwise,  *)
(* returning false at the first customer who cannot be given change; the   *)
(* counts of 25- and 50-bills are never negative.                          *)
(***************************************************************************)
C9_SellTickets ==
  /\ cashbox.c25 >= 0
  /\ cashbox.c50 >= 0
  /\ sold = <<TRUE>> => (i = Len(queue) /\ Servable(queue, 1, 0, 0))
  /\ sold = <<FALSE>> =>
       /\ ~Servable(queue, 1, 0, 0)
       /\ i < Len(queue)
       /\ ~CanChange(queue[i + 1], cashbox)
       /\ \A k \in 1..i : Servable(SubSeq(queue, 1, k), 1, 0, 0)

\* A queue whose 100 can be changed either way, and only the 50 and the 25
\* leave change for the customer after, has been sold out.
C9_Witness ==
  /\ queue = <<25, 25, 25, 25, 50, 100, 50>>
  /\ sold = <<TRUE>>

(***************************************************************************)
(* Reference definition for compareObjects: equality of flat objects.      *)
(***************************************************************************)
KeysOf(o) == {o[n][1] : n \in DOMAIN o}
IndexOf(o, key) == CHOOSE n \in DOMAIN o : o[n][1] = key
SameObject(o1, o2) ==
  /\ KeysOf(o1) = KeysOf(o2)
  /\ \A key \in KeysOf(o1) : o1[IndexOf(o1, key)][2] = o2[IndexOf(o2, key)][2]

(***************************************************************************)
(* C10.  compareObjects returns true if the objects are equal (the same    *)
(* keys, each with the same value in both) and false otherwise, whatever   *)
(* the order the keys were inserted in, and the same for (obj2, obj1).     *)
(***************************************************************************)
C10_CompareObjects ==
  equal # <<>> =>
    /\ equal[1] = SameObject(obj1, obj2)
    /\ equal[1] = compareObjects(obj2, obj1)

====
